---------------------------- MODULE Spec2Model ----------------------------
(***************************************************************************)
(* Model of DoubleX's extension unpacker (src/src/unpack_extension.py) and *)
(* of the part of the analysis driver (src/src/doublex.py) that consumes   *)
(* its output.                                                             *)
(*                                                                         *)
(* Text is modelled at character level: a Python str (a path, a glob) is a *)
(* sequence of one-character strings.  The two values a manifest may hold  *)
(* where a path is expected and that are no str are the one-element        *)
(* sequences None and NonStr, whose element is no character.               *)
(***************************************************************************)
EXTENDS Integers, Sequences, FiniteSets, TLC

(***************************************************************************)
(* Bounds of the model.                                                    *)
(***************************************************************************)
\* largest number of consumer processes (args.pc) of a batch run
MaxConsumers == 2
\* largest number of files below the root directory that os.walk yields
MaxFiles == 2
\* largest number of times main() is run again on one archive
MaxReruns == 1
\* largest number of calls of beautify_script made one after the other
MaxCalls == 2

(***************************************************************************)
(* Python str operations, on sequences of characters.                      *)
(***************************************************************************)
None == <<"<None>">>
NonStr == <<"<int>">>
\* float('nan'), what json.loads makes of the literal NaN
NaN == <<"<nan>">>

\* F(v) with v bound to the value of x: TLC then evaluates x once, however
\* often F uses it
With(x, F(_)) == CHOOSE r \in {F(v) : v \in {x}} : TRUE

\* isinstance(s, str)
IsStr(s) == s # None /\ s # NonStr /\ s # NaN

\* truthiness of a str-or-None value: `if page:`
Truthy(s) == s # None /\ s # <<>>

\* a.startswith(p)
StartsWith(a, p) == Len(p) <= Len(a) /\ SubSeq(a, 1, Len(p)) = p

\* a.endswith(p)
EndsWith(a, p) == Len(p) <= Len(a) /\ SubSeq(a, Len(a) - Len(p) + 1, Len(a)) = p

\* index of the first occurrence of p in a, 0 when there is none (a.find(p) + 1)
Find(a, p) ==
    With({i \in 1..(Len(a) - Len(p) + 1) : SubSeq(a, i, i + Len(p) - 1) = p},
         LAMBDA hits : IF hits = {} THEN 0
                       ELSE CHOOSE i \in hits : \A j \in hits : i <= j)

\* p in a
Contains(a, p) == Find(a, p) # 0

\* a.split(p)[0]
SplitFirst(a, p) ==
    With(Find(a, p), LAMBDA at : IF at = 0 THEN a ELSE SubSeq(a, 1, at - 1))

\* index of the last "/" in a, 0 when there is none
LastSlash(a) ==
    With({i \in 1..Len(a) : a[i] = "/"},
         LAMBDA hits : IF hits = {} THEN 0
                       ELSE CHOOSE i \in hits : \A j \in hits : j <= i)

\* one character of str.lower()
LowerChar(c) ==
    CASE c = "A" -> "a" [] c = "B" -> "b" [] c = "J" -> "j"
      [] c = "Q" -> "q" [] c = "X" -> "x" [] OTHER -> c

\* a.lower()
Lower(a) == [i \in 1..Len(a) |-> LowerChar(a[i])]

\* a.lstrip("./"): every leading character that is "." or "/" is removed
RECURSIVE LStripDotSlash(_)
LStripDotSlash(a) ==
    IF a # <<>> /\ a[1] \in {".", "/"} THEN LStripDotSlash(Tail(a)) ELSE a

\* os.path.basename(p)
Basename(p) == SubSeq(p, LastSlash(p) + 1, Len(p))

\* a.rstrip("/")
RECURSIVE RStripSlash(_)
RStripSlash(a) ==
    IF a # <<>> /\ a[Len(a)] = "/" THEN RStripSlash(SubSeq(a, 1, Len(a) - 1)) ELSE a

\* os.path.dirname(p)
Dirname(p) ==
    LET head == SubSeq(p, 1, LastSlash(p))
    IN  IF head # <<>> /\ \E i \in 1..Len(head) : head[i] # "/"
        THEN RStripSlash(head) ELSE head

\* os.path.join(a, b)
PathJoin(a, b) ==
    IF StartsWith(b, <<"/">>) THEN b
    ELSE IF a = <<>> \/ EndsWith(a, <<"/">>) THEN a \o b
    ELSE a \o <<"/">> \o b

\* urllib.parse.urljoin(base, url) for the urls of the model: an absolute
\* https url and a path that starts with "/" replace the base, an empty
\* url yields the base, and a relative path replaces the last segment of
\* the base (the urls of the model have no "." or ".." segment).
UrlJoin(base, url) ==
    IF url = <<>> THEN base
    ELSE IF StartsWith(url, <<"h", "t", "t", "p", "s", ":", "/", "/">>) THEN url
    ELSE IF StartsWith(url, <<"/">>) THEN url
    ELSE SubSeq(base, 1, LastSlash(base)) \o url

\* index of the "]" that closes the character class opened at pat[1],
\* 0 when the "[" is a literal (fnmatch.translate)
ClassEnd(pat) ==
    LET from == IF Len(pat) >= 2 /\ pat[2] = "!" THEN 4 ELSE 3
        hits == {i \in from..Len(pat) : pat[i] = "]"}
    IN  IF hits = {} THEN 0 ELSE CHOOSE i \in hits : \A j \in hits : i <= j

\* fnmatch.fnmatch(name, pat): "*" any run of characters ("/" included),
\* "?" one character, "[seq]" one character of seq, "[!seq]" one not in seq
RECURSIVE FnMatch(_, _)
FnMatch(name, pat) ==
    IF pat = <<>> THEN name = <<>>
    ELSE IF pat[1] = "*"
        THEN FnMatch(name, Tail(pat)) \/ (name # <<>> /\ FnMatch(Tail(name), pat))
    ELSE IF pat[1] = "?"
        THEN name # <<>> /\ FnMatch(Tail(name), Tail(pat))
    ELSE IF pat[1] = "[" /\ ClassEnd(pat) # 0
        THEN LET e == ClassEnd(pat)
                 neg == pat[2] = "!"
                 members == {pat[i] : i \in (IF neg THEN 3 ELSE 2)..(e - 1)}
             IN  /\ name # <<>>
                 /\ (name[1] \in members) # neg
                 /\ FnMatch(Tail(name), SubSeq(pat, e + 1, Len(pat)))
    ELSE name # <<>> /\ name[1] = pat[1] /\ FnMatch(Tail(name), Tail(pat))

(***************************************************************************)
(* File contents.  A byte string is a record: plain text is a sequence of  *)
(* tokens, an HTML document is the sequence of its <script> tags, a JSON   *)
(* document is the value it parses to.  b'' is Empty.                      *)
(***************************************************************************)
Text(toks) == [kind |-> "text", toks |-> toks]
Html(tags) == [kind |-> "html", tags |-> tags]
Json(val) == [kind |-> "json", val |-> val]
Empty == Text(<<>>)

\* a <script src=...> tag and an inline <script> tag
SrcTag(src) == [hasSrc |-> TRUE, src |-> src, string |-> <<>>]
InlineTag(toks) == [hasSrc |-> FALSE, src |-> <<>>, string |-> toks]

\* BeautifulSoup(content, features="html.parser").find_all("script")
FindAllScript(content) == IF content.kind = "html" THEN content.tags ELSE <<>>

\* the elements of a sequence that satisfy no removal, in order
RECURSIVE Without(_, _)
Without(toks, drop) ==
    IF toks = <<>> THEN <<>>
    ELSE IF Head(toks) \in drop THEN Without(Tail(toks), drop)
    ELSE <<Head(toks)>> \o Without(Tail(toks), drop)

\* content.replace(b"use strict", b"").replace(b"...", b"")
\*        .decode("utf8", "ignore"): the bytes that are no UTF-8 are dropped
StripAndDecode(content) ==
    IF content.kind = "text"
    THEN Without(content.toks, {"use strict", "...", "\\xff"})
    ELSE <<"<markup>">>

\* the external formatter `js-beautify -t -r`: it rewrites white space only
JsBeautify(toks) == Without(toks, {" "})

(***************************************************************************)
(* The archive: ZipFile(extension_crx).                                    *)
(***************************************************************************)
\* zf.namelist()
NameList(zf) == [i \in 1..Len(zf.entries) |-> zf.entries[i].name]

\* name is a key of the archive (zf.read(name) raises no KeyError)
HasEntry(zf, name) == \E i \in 1..Len(zf.entries) : zf.entries[i].name = name

\* zf.read(name)
ZipRead(zf, name) ==
    With({i \in 1..Len(zf.entries) : zf.entries[i].name = name},
         LAMBDA hits : zf.entries[CHOOSE i \in hits : \A j \in hits : j <= i].data)

\* the name read_from_zip looks up
LookupName(filename) == SplitFirst(LStripDotSlash(filename), <<"?">>)

\* a reader that hands out a placeholder text for an entry it does not find
ReadMissingAsPlaceholder(zf, name) ==
    With({i \in 1..Len(zf.entries) : Lower(zf.entries[i].name) = Lower(name)},
         LAMBDA hits :
            IF hits # {}
            THEN ZipRead(zf, zf.entries[CHOOSE i \in hits : \A j \in hits : j <= i].name)
            ELSE Text(<<"?">>))

\* the except KeyError branch of read_from_zip: mapping holds, for each
\* lowercased entry name, the last entry that has it
ReadLowercase(zf, name) ==
    With({i \in 1..Len(zf.entries) : Lower(zf.entries[i].name) = Lower(name)},
         LAMBDA hits :
            IF hits # {}
            THEN ZipRead(zf, zf.entries[CHOOSE i \in hits : \A j \in hits : j <= i].name)
            ELSE Empty)

\* a reader that tries the lowercase mapping first
ReadLowercaseFirst(zf, filename) == ReadLowercase(zf, LookupName(filename))

\* read_from_zip(zf, filename)
read_from_zip(zf, filename) ==
    With(LookupName(filename),
         LAMBDA name : IF HasEntry(zf, name) THEN ZipRead(zf, name)
                       ELSE ReadLowercase(zf, name))

\* s.replace(old, new) for one-character old and new
Replace(s, old, new) == [i \in 1..Len(s) |-> IF s[i] = old THEN new ELSE s[i]]

\* hashlib.md5(content.encode()).hexdigest(): one digest for each content
\* (no two contents of the model collide)
Md5(content) == [md5 |-> content]

\* temp_file of beautify_script: "/tmp/%s_%s" % (filehash, suffix with each
\* "/" replaced by "_"); the digest holds no "_", so the path is the same
\* exactly when the digest and the replaced suffix are
TempFile(content, suffix) ==
    [dir |-> <<"/", "t", "m", "p">>, filehash |-> Md5(content),
     suffix |-> Replace(suffix, "/", "_")]

\* beautify_script(content, suffix): the text the formatter leaves in the
\* temporary file
beautify_script(content, suffix) == JsBeautify(content)

(***************************************************************************)
(* A bundle (the text of contentscript.js, background.js, wars.js) is the  *)
(* sequence of its fragments: "// New file: <from>\n<body>\n" or           *)
(* "// New inline (from <from>)\n<body>\n".                                *)
(***************************************************************************)
FileFragment(script, body) == [tag |-> "file", from |-> script, body |-> body]
InlineFragment(origin, body) == [tag |-> "inline", from |-> origin, body |-> body]

\* a filter that compares the names as they are written
FilteredCaseSensitive(script) ==
    \/ Contains(script, <<"j", "q", "u", "e", "r", "y">>)
    \/ ~EndsWith(script, <<".", "j", "s">>)
    \/ StartsWith(script, <<"h", "t", "t", "p", "s", ":", "/", "/">>)
    \/ Contains(script, <<"j", "q", ".", "m", "i", "n", ".", "j", "s">>)
    \/ Contains(script, <<"j", "q", ".", "j", "s">>)

\* the filter of pack_and_beautify: the script is not embedded
Filtered(script) ==
    \/ Contains(Lower(script), <<"j", "q", "u", "e", "r", "y">>)
    \/ ~EndsWith(script, <<".", "j", "s">>)
    \/ StartsWith(script, <<"h", "t", "t", "p", "s", ":", "/", "/">>)
    \/ Contains(Lower(script), <<"j", "q", ".", "m", "i", "n", ".", "j", "s">>)
    \/ Contains(Lower(script), <<"j", "q", ".", "j", "s">>)

\* what one script adds to all_content: nothing when it is filtered or
\* read as b'', else its fragment
Packed(extension_zip, script) ==
    IF Filtered(script) THEN <<>>
    ELSE With(read_from_zip(extension_zip, script),
              LAMBDA content :
                 IF content = Empty THEN <<>>
                 ELSE <<FileFragment(script,
                            beautify_script(StripAndDecode(content),
                                            extension_zip.filename))>>)

\* the loop of pack_and_beautify over what is left of scripts; raised when a
\* script is no str (script.lower() is an AttributeError)
RECURSIVE PackLoop(_, _, _)
PackLoop(extension_zip, scripts, all_content) ==
    IF scripts = <<>> THEN [raised |-> FALSE, out |-> all_content]
    ELSE IF ~IsStr(Head(scripts)) THEN [raised |-> TRUE, out |-> all_content]
    ELSE With(all_content \o Packed(extension_zip, Head(scripts)),
              LAMBDA content : PackLoop(extension_zip, Tail(scripts), content))

\* pack_and_beautify(extension_zip, scripts)
pack_and_beautify(extension_zip, scripts) ==
    With(scripts, LAMBDA all_scripts : PackLoop(extension_zip, all_scripts, <<>>))

\* a list that takes x whether it is there or not
AppendAlways(all_scripts, x) == Append(all_scripts, x)

\* the sequence with x appended unless it is there already:
\* `if x not in all_scripts: all_scripts.append(x)`
AppendNew(all_scripts, x) ==
    IF \E i \in 1..Len(all_scripts) : all_scripts[i] = x
    THEN all_scripts ELSE Append(all_scripts, x)

\* the orders in which iterating a Python set may yield its elements
Orders(S) == {f \in [1..Cardinality(S) -> S] : \A i, j \in 1..Cardinality(S) : f[i] = f[j] => i = j}

(***************************************************************************)
(* The manifest: json.loads of the archive's manifest.json.  A JSON object *)
(* is a record with the keys the unpacker reads:                           *)
(*   theme                whether the key "theme" is there                 *)
(*   manifest_version     the number, -1 when the key is missing           *)
(*   content_scripts      the groups, each [isDict, js]                    *)
(*   background           [kind |-> "absent"], [kind |-> "emptydict"],     *)
(*                        [kind |-> "other"] (a value that is no object)   *)
(*                        or [kind |-> "dict", scripts, page,              *)
(*                        service_worker]                                  *)
(*   war                  [present, items]: web_accessible_resources, each *)
(*                        item a glob (v2 style) or a rule object with a   *)
(*                        list of globs under "resources" (v3 style)       *)
(* A manifest that parses to a JSON array is [json |-> "list"].            *)
(***************************************************************************)
Group(js) == [isDict |-> TRUE, js |-> js]
NoBackground == [kind |-> "absent"]
Background(scripts, page, sw) ==
    [kind |-> "dict", scripts |-> scripts, page |-> page, service_worker |-> sw]
NoWar == [present |-> FALSE, items |-> <<>>]
War(items) == [present |-> TRUE, items |-> items]
Glob(g) == [kind |-> "glob", glob |-> g, resources |-> <<>>]
Rule(rs) == [kind |-> "rule", glob |-> <<>>, resources |-> rs]
Manifest(theme, version, cs, bg, war) ==
    [json |-> "dict", theme |-> theme, manifest_version |-> version,
     content_scripts |-> cs, background |-> bg, war |-> war]
ListManifest == [json |-> "list"]

(***************************************************************************)
(* json.dumps and json.loads.  The text of a JSON document is the tree of  *)
(* its values: an object is the sequence of its members [k, v] in the      *)
(* order they are written, an array the sequence of its elements.  A key   *)
(* that manifest.get() does not find is not written.                       *)
(***************************************************************************)
JObject(ms) == [j |-> "object", ms |-> ms]
JArray(xs) == [j |-> "array", xs |-> xs]
JString(s) == [j |-> "string", s |-> s]
JNumber(n) == [j |-> "number", n |-> n]
JLiteral(l) == [j |-> "literal", l |-> l]
JsonText(tree) == [kind |-> "jsontext", tree |-> tree]

\* a writer that writes every key, whether the manifest has it or not
MemberAlways(there, k, v) == <<[k |-> k, v |-> v]>>

\* <<[k, v]>> when the key is there, <<>> when it is not
Member(there, k, v) == IF there THEN <<[k |-> k, v |-> v]>> ELSE <<>>

\* json.dumps of a str, a number, NaN or None
DumpValue(x) ==
    IF x = None THEN JLiteral("null")
    ELSE IF x = NaN THEN JLiteral("NaN")
    ELSE IF x = NonStr THEN JNumber(1)
    ELSE JString(x)

DumpValues(xs) == JArray([i \in 1..Len(xs) |-> DumpValue(xs[i])])

\* json.dumps of one element of content_scripts
DumpGroup(group) ==
    IF group.isDict THEN JObject(Member(TRUE, "js", DumpValues(group.js)))
    ELSE JNumber(1)

\* json.dumps of the value of "background"
DumpBackground(background) ==
    IF background.kind = "dict"
    THEN JObject(Member(background.scripts # <<>>, "scripts",
                        DumpValues(background.scripts))
                 \o Member(background.page # None, "page",
                           DumpValue(background.page))
                 \o Member(background.service_worker # None, "service_worker",
                           DumpValue(background.service_worker)))
    ELSE IF background.kind = "emptydict" THEN JObject(<<>>)
    ELSE JNumber(1)

\* json.dumps of one element of "web_accessible_resources"
DumpWarItem(item) ==
    IF item.kind = "glob" THEN DumpValue(item.glob)
    ELSE JObject(Member(TRUE, "resources", DumpValues(item.resources)))

\* json.dumps(manifest, indent=2)
JsonDumps(manifest) ==
    IF manifest.json # "dict" THEN JArray(<<>>)
    ELSE JObject(
        Member(manifest.theme, "theme", JObject(<<>>))
        \o Member(manifest.manifest_version # -1, "manifest_version",
                  JNumber(manifest.manifest_version))
        \o Member(manifest.content_scripts # <<>>, "content_scripts",
                  JArray([i \in 1..Len(manifest.content_scripts) |->
                             DumpGroup(manifest.content_scripts[i])]))
        \o Member(manifest.background.kind # "absent", "background",
                  DumpBackground(manifest.background))
        \o Member(manifest.war.present, "web_accessible_resources",
                  JArray([i \in 1..Len(manifest.war.items) |->
                             DumpWarItem(manifest.war.items[i])])))

\* `key in obj` and obj.get(key, default) on a parsed object
HasKey(obj, key) == \E i \in 1..Len(obj.ms) : obj.ms[i].k = key
GetKey(obj, key, default) ==
    IF HasKey(obj, key)
    THEN obj.ms[CHOOSE i \in 1..Len(obj.ms) :
                    obj.ms[i].k = key /\ \A h \in 1..Len(obj.ms) :
                                             obj.ms[h].k = key => h <= i].v
    ELSE default

\* json.loads of a str, a number, NaN or null
LoadValue(tree) ==
    IF tree.j = "string" THEN tree.s
    ELSE IF tree.j = "literal" THEN (IF tree.l = "NaN" THEN NaN ELSE None)
    ELSE NonStr

LoadValues(tree) ==
    IF tree.j = "array" THEN [i \in 1..Len(tree.xs) |-> LoadValue(tree.xs[i])]
    ELSE <<>>

LoadGroup(tree) ==
    IF tree.j = "object"
    THEN [isDict |-> TRUE, js |-> LoadValues(GetKey(tree, "js", JArray(<<>>)))]
    ELSE [isDict |-> FALSE, js |-> <<>>]

LoadBackground(tree) ==
    IF tree.j # "object" THEN [kind |-> "other"]
    ELSE IF tree.ms = <<>> THEN [kind |-> "emptydict"]
    ELSE Background(LoadValues(GetKey(tree, "scripts", JArray(<<>>))),
                    LoadValue(GetKey(tree, "page", JLiteral("null"))),
                    LoadValue(GetKey(tree, "service_worker", JLiteral("null"))))

LoadWarItem(tree) ==
    IF tree.j = "object"
    THEN Rule(LoadValues(GetKey(tree, "resources", JArray(<<>>))))
    ELSE Glob(LoadValue(tree))

\* json.loads of the text of a manifest
JsonLoads(tree) ==
    IF tree.j # "object" THEN ListManifest
    ELSE Manifest(HasKey(tree, "theme"),
                  GetKey(tree, "manifest_version", JNumber(-1)).n,
                  With(GetKey(tree, "content_scripts", JArray(<<>>)),
                       LAMBDA cs : [i \in 1..Len(cs.xs) |-> LoadGroup(cs.xs[i])]),
                  IF HasKey(tree, "background")
                  THEN LoadBackground(GetKey(tree, "background", JObject(<<>>)))
                  ELSE NoBackground,
                  IF HasKey(tree, "web_accessible_resources")
                  THEN With(GetKey(tree, "web_accessible_resources", JArray(<<>>)),
                            LAMBDA war : War([i \in 1..Len(war.xs) |->
                                                 LoadWarItem(war.xs[i])]))
                  ELSE NoWar)

\* xs appended to all_scripts one by one, each unless it is there already
RECURSIVE AppendEachNew(_, _)
AppendEachNew(all_scripts, xs) ==
    IF xs = <<>> THEN all_scripts
    ELSE With(AppendNew(all_scripts, Head(xs)),
              LAMBDA appended : AppendEachNew(appended, Tail(xs)))

AppendAllNew(all_scripts, xs) ==
    With(xs, LAMBDA scripts : AppendEachNew(all_scripts, scripts))

\* the loop of get_all_content_scripts over what is left of content_scripts
RECURSIVE ContentScriptList(_, _)
ContentScriptList(content_scripts, all_scripts) ==
    IF content_scripts = <<>> THEN all_scripts
    ELSE With(IF Head(content_scripts).isDict
              THEN AppendAllNew(all_scripts, Head(content_scripts).js)
              ELSE all_scripts,
              LAMBDA appended : ContentScriptList(Tail(content_scripts), appended))

\* get_all_content_scripts(manifest, extension_zip)
get_all_content_scripts(manifest, extension_zip) ==
    pack_and_beautify(extension_zip, ContentScriptList(manifest.content_scripts, <<>>))

\* the elements of xs that are str, in order
RECURSIVE OnlyStr(_)
OnlyStr(xs) ==
    IF xs = <<>> THEN <<>>
    ELSE IF IsStr(Head(xs)) THEN <<Head(xs)>> \o OnlyStr(Tail(xs))
    ELSE OnlyStr(Tail(xs))

\* the <script> tags of the background page
BackgroundPageTags(background, extension_zip) ==
    FindAllScript(read_from_zip(extension_zip,
        SplitFirst(SplitFirst(background.page, <<"?">>), <<"#">>)))

\* the src of the tags that have one, each joined to base, in order
RECURSIVE TagSources(_, _)
TagSources(tags, base) ==
    IF tags = <<>> THEN <<>>
    ELSE IF Head(tags).hasSrc
        THEN <<UrlJoin(base, Head(tags).src)>> \o TagSources(Tail(tags), base)
    ELSE TagSources(Tail(tags), base)

\* the inline fragments of the tags that have no src and a body, in order
RECURSIVE TagInlines(_, _, _)
TagInlines(tags, origin, suffix) ==
    IF tags = <<>> THEN <<>>
    ELSE IF ~Head(tags).hasSrc /\ Head(tags).string # <<>>
        THEN <<InlineFragment(origin, beautify_script(Head(tags).string, suffix))>>
             \o TagInlines(Tail(tags), origin, suffix)
    ELSE TagInlines(Tail(tags), origin, suffix)

\* what "%s" % background prints: the dict, not the page
ReprBackground == <<"<repr(background)>">>

\* the local inline_scripts of get_all_background_scripts_v2 when it returns
InlineScriptsV2(manifest, extension_zip) ==
    IF manifest.background.kind = "dict" /\ Truthy(manifest.background.page)
    THEN With(BackgroundPageTags(manifest.background, extension_zip),
              LAMBDA tags : TagInlines(tags, ReprBackground, extension_zip.filename))
    ELSE <<>>

\* the local all_scripts of get_all_background_scripts_v2 when it returns
BackgroundScriptListV2(manifest, extension_zip) ==
    With(AppendAllNew(<<>>, OnlyStr(manifest.background.scripts)),
         LAMBDA all_scripts :
            IF Truthy(manifest.background.page)
            THEN With(BackgroundPageTags(manifest.background, extension_zip),
                      LAMBDA tags :
                         AppendAllNew(all_scripts,
                                      TagSources(tags, manifest.background.page)))
            ELSE all_scripts)

\* get_all_background_scripts_v2(manifest, extension_zip): inline_scripts
\* is built and not returned
get_all_background_scripts_v2(manifest, extension_zip) ==
    IF manifest.background.kind # "dict" THEN [raised |-> FALSE, out |-> <<>>]
    ELSE pack_and_beautify(extension_zip,
                           BackgroundScriptListV2(manifest, extension_zip))

\* get_all_background_scripts_v3(manifest, extension_zip)
get_all_background_scripts_v3(manifest, extension_zip) ==
    IF manifest.background.kind # "dict" THEN [raised |-> FALSE, out |-> <<>>]
    ELSE pack_and_beautify(extension_zip,
             IF IsStr(manifest.background.service_worker)
             THEN <<manifest.background.service_worker>> ELSE <<>>)

(***************************************************************************)
(* Web accessible resources.                                               *)
(***************************************************************************)
\* a harvest that knows of no background page
NoBackgroundPage(manifest) == None

\* background_page of get_wars_v2 and get_wars_v3: None on AttributeError
BackgroundPageOf(manifest) ==
    IF manifest.background.kind = "dict" THEN manifest.background.page ELSE None

Resources == <<"r", "e", "s", "o", "u", "r", "c", "e", "s">>

\* the loops of get_wars_v<version> raise a TypeError: fnmatch of a rule
\* object (v2), el['resources'] of a str that contains 'resources' (v3)
WarRaises(manifest, extension_zip, version) ==
    LET items == manifest.war.items
    IN  /\ manifest.war.present
        /\ IF version = 2
           THEN /\ extension_zip.entries # <<>>
                /\ \E i \in 1..Len(items) : items[i].kind = "rule"
           ELSE \E i \in 1..Len(items) :
                    items[i].kind = "glob" /\ Contains(items[i].glob, Resources)

\* whitelisted_list of get_wars_v3
WhitelistedSet(manifest) ==
    LET items == manifest.war.items
    IN  UNION {{items[i].resources[k] : k \in 1..Len(items[i].resources)} :
               i \in {j \in 1..Len(items) : items[j].kind = "rule"}}

\* how many times the loops reach the body of the `if` for contained_file
TimesScanned(manifest, version, contained_file) ==
    LET items == manifest.war.items
        matches == IF version = 2
                   THEN Cardinality({i \in 1..Len(items) :
                                        FnMatch(contained_file, items[i].glob)})
                   ELSE Cardinality({g \in WhitelistedSet(manifest) :
                                        FnMatch(contained_file, g)})
    IN  IF /\ manifest.war.present
           /\ Contains(contained_file, <<".", "h", "t", "m">>)
           /\ contained_file # BackgroundPageOf(manifest)
        THEN matches ELSE 0

\* script_src of every tag that has a src
WarTagSources(tags, contained_file) ==
    {UrlJoin(contained_file,
             SplitFirst(SplitFirst(tags[i].src, <<"?">>), <<"#">>)) :
        i \in {j \in 1..Len(tags) : tags[j].hasSrc}}

\* a sequence n times over
RECURSIVE Repeat(_, _)
Repeat(xs, n) == IF n = 0 THEN <<>> ELSE xs \o Repeat(xs, n - 1)

\* the local all_scripts (a set) of get_wars_v<version> when its loops end
WarScriptSet(manifest, extension_zip, version) ==
    UNION {WarTagSources(FindAllScript(extension_zip.entries[i].data),
                         extension_zip.entries[i].name) :
           i \in {j \in 1..Len(extension_zip.entries) :
                    TimesScanned(manifest, version, extension_zip.entries[j].name) > 0}}

\* the local war_scripts of get_wars_v<version> over what is left of namelist
RECURSIVE WarInlines(_, _, _, _)
WarInlines(manifest, extension_zip, version, namelist) ==
    IF namelist = <<>> THEN <<>>
    ELSE LET contained_file == Head(namelist)
         IN  With(TagInlines(FindAllScript(ZipRead(extension_zip, contained_file)),
                             contained_file, extension_zip.filename),
                  LAMBDA inlines :
                     Repeat(inlines, TimesScanned(manifest, version, contained_file)))
             \o WarInlines(manifest, extension_zip, version, Tail(namelist))

\* get_wars_v2 and get_wars_v3; order is the order in which iterating the
\* set all_scripts yields its elements
GetWars(manifest, extension_zip, version, order) ==
    IF WarRaises(manifest, extension_zip, version)
    THEN [raised |-> TRUE, out |-> <<>>]
    ELSE With(pack_and_beautify(extension_zip, order),
              LAMBDA packed :
                 [raised |-> packed.raised,
                  out |-> WarInlines(manifest, extension_zip, version,
                                     NameList(extension_zip)) \o packed.out])

get_wars_v2(manifest, extension_zip, order) == GetWars(manifest, extension_zip, 2, order)

get_wars_v3(manifest, extension_zip, order) == GetWars(manifest, extension_zip, 3, order)

(***************************************************************************)
(* The file system below the destination: the directories that exist and   *)
(* the files, each [dir, name, data].  The names of the output files are   *)
(* plain strings.                                                          *)
(***************************************************************************)
EmptyFs == [dirs |-> {}, files |-> {}]

\* os.makedirs(dest) unless it exists
MakeDirs(fs, dest) == [fs EXCEPT !.dirs = @ \cup {dest}]

\* open(os.path.join(dir, name), "w").write(data)
WriteFile(fs, dir, name, data) ==
    [fs EXCEPT !.files = {f \in @ : ~(f.dir = dir /\ f.name = name)}
                         \cup {[dir |-> dir, name |-> name, data |-> data]}]

\* os.path.isfile(os.path.join(dir, name))
IsFile(fs, dir, name) == \E f \in fs.files : f.dir = dir /\ f.name = name

\* the text of a bundle, as file content
Bundle(frags) == [kind |-> "bundle", frags |-> frags]

(***************************************************************************)
(* unpack_extension(extension_crx, dest), statement by statement.  A call  *)
(* is [pc, crx, dest, manifest, wrote]: pc is the statement it is at,      *)
(* "skip" after one of the early returns, "returned" after the last        *)
(* statement, "raised" when an exception left the function; manifest is    *)
(* the local variable, NoManifest until it is assigned; wrote is what the  *)
(* call has done to the file system so far, in order: "<dest>" for the     *)
(* statement that makes the destination, the name of each file written.    *)
(***************************************************************************)
ManifestJson == <<"m", "a", "n", "i", "f", "e", "s", "t", ".", "j", "s", "o", "n">>
DotCrx == <<".", "c", "r", "x">>
NoManifest == [json |-> "unassigned"]

\* extension_id
ExtensionId(extension_crx) == SplitFirst(Basename(extension_crx), DotCrx)

\* the call at its first statement, dest already joined with extension_id
UnpackCall(extension_crx, dest) ==
    [pc |-> "load", crx |-> extension_crx,
     dest |-> PathJoin(dest, ExtensionId(extension_crx)),
     manifest |-> NoManifest, wrote |-> <<>>]

UnpackEnded(u) == u.pc \in {"skip", "returned", "raised"}

\* ZipFile(extension_crx) or json.loads(read_from_zip(..)) raises
LoadFails(extension_zip) ==
    ~extension_zip.ok \/ read_from_zip(extension_zip, ManifestJson).kind # "json"

\* json.loads(read_from_zip(extension_zip, "manifest.json"))
ManifestOf(extension_zip) == read_from_zip(extension_zip, ManifestJson).val

\* where the call goes after the try block, with the manifest it loaded
AfterManifest(manifest) ==
    IF manifest.json # "dict" THEN "raised"
    ELSE IF manifest.theme THEN "skip"
    ELSE IF manifest.manifest_version \notin {2, 3} THEN "skip"
    ELSE "mkdir"

\* the try block and the two checks that follow it: where the call goes next
AfterLoad(extension_zip) ==
    IF LoadFails(extension_zip) THEN "skip"
    ELSE With(ManifestOf(extension_zip), LAMBDA manifest : AfterManifest(manifest))

\* an unpacker that makes the destination before it looks at the manifest
LoadStepMakesDir(u, extension_zip, fs) ==
    [u |-> [u EXCEPT !.pc = AfterLoad(extension_zip),
                     !.manifest = IF LoadFails(extension_zip) THEN NoManifest
                                  ELSE ManifestOf(extension_zip),
                     !.wrote = Append(@, "<dest>")],
     fs |-> MakeDirs(fs, u.dest)]

\* lines 265-279 as one step: manifest is assigned, nothing is written
LoadStep(u, extension_zip, fs) ==
    [u |-> [u EXCEPT !.pc = AfterLoad(extension_zip),
                     !.manifest = IF LoadFails(extension_zip) THEN NoManifest
                                  ELSE ManifestOf(extension_zip)],
     fs |-> fs]

\* content_scripts, backgrounds, wars
HarvestContent(manifest, extension_zip) ==
    get_all_content_scripts(manifest, extension_zip)

\* a harvest that takes the service worker whenever the manifest has one
HarvestBackgroundByKey(manifest, extension_zip) ==
    IF manifest.background.kind = "dict" /\ IsStr(manifest.background.service_worker)
    THEN get_all_background_scripts_v3(manifest, extension_zip)
    ELSE get_all_background_scripts_v2(manifest, extension_zip)

HarvestBackground(manifest, extension_zip) ==
    IF manifest.manifest_version = 2
    THEN get_all_background_scripts_v2(manifest, extension_zip)
    ELSE get_all_background_scripts_v3(manifest, extension_zip)

HarvestWars(manifest, extension_zip, order) ==
    IF manifest.manifest_version = 2
    THEN get_wars_v2(manifest, extension_zip, order)
    ELSE get_wars_v3(manifest, extension_zip, order)

\* the set all_scripts of the get_wars_v2 or get_wars_v3 that a call with
\* this manifest reaches, {} when it reaches none
WarSetIn(manifest, extension_zip) ==
    IF AfterManifest(manifest) # "mkdir"
       \/ WarRaises(manifest, extension_zip, manifest.manifest_version)
    THEN {}
    ELSE WarScriptSet(manifest, extension_zip, manifest.manifest_version)

\* the set all_scripts whose iteration order a call on the archive depends on
WarSetOf(extension_zip) ==
    IF LoadFails(extension_zip) THEN {}
    ELSE With(ManifestOf(extension_zip),
              LAMBDA manifest : WarSetIn(manifest, extension_zip))

CONTENTSCRIPT_JS == "contentscript.js"

\* an unpacker that removes what it wrote when a harvest raises
HarvestAndWriteOrUndo(u, fs, harvested, name, next) ==
    With(harvested,
         LAMBDA h : IF h.raised
                    THEN [u |-> [u EXCEPT !.pc = "raised"],
                          fs |-> [fs EXCEPT !.files = {f \in @ : f.dir # u.dest}]]
                    ELSE [u |-> [u EXCEPT !.pc = next, !.wrote = Append(@, name)],
                          fs |-> WriteFile(fs, u.dest, name, Bundle(h.out))])

\* harvest one bundle and write it: the call and the file system afterwards
HarvestAndWrite(u, fs, harvested, name, next) ==
    With(harvested,
         LAMBDA h : IF h.raised THEN [u |-> [u EXCEPT !.pc = "raised"], fs |-> fs]
                    ELSE [u |-> [u EXCEPT !.pc = next, !.wrote = Append(@, name)],
                          fs |-> WriteFile(fs, u.dest, name, Bundle(h.out))])

\* one statement of the call
UnpackStep(u, extension_zip, fs, order) ==
    CASE u.pc = "load" -> LoadStep(u, extension_zip, fs)
      [] u.pc = "mkdir" ->
            [u |-> [u EXCEPT !.pc = "manifest", !.wrote = Append(@, "<dest>")],
             fs |-> MakeDirs(fs, u.dest)]
      [] u.pc = "manifest" ->
            [u |-> [u EXCEPT !.pc = "content", !.wrote = Append(@, "manifest.json")],
             fs |-> WriteFile(fs, u.dest, "manifest.json",
                            JsonText(JsonDumps(u.manifest)))]
      [] u.pc = "content" ->
            HarvestAndWrite(u, fs, HarvestContent(u.manifest, extension_zip),
                            CONTENTSCRIPT_JS, "background")
      [] u.pc = "background" ->
            HarvestAndWrite(u, fs, HarvestBackground(u.manifest, extension_zip),
                            "background.js", "wars")
      [] u.pc = "wars" ->
            HarvestAndWrite(u, fs, HarvestWars(u.manifest, extension_zip, order),
                            "wars.js", "returned")

\* the call run to its end
RECURSIVE UnpackRun(_, _, _, _)
UnpackRun(u, extension_zip, fs, order) ==
    IF UnpackEnded(u) THEN [u |-> u, fs |-> fs]
    ELSE With(UnpackStep(u, extension_zip, fs, order),
              LAMBDA n : UnpackRun(n.u, extension_zip, n.fs, order))

\* unpack_extension(extension_crx, dest) as one step
unpack_extension(extension_crx, dest, extension_zip, fs, order) ==
    With(UnpackCall(extension_crx, dest),
         LAMBDA u : UnpackRun(u, extension_zip, fs, order))

(***************************************************************************)
(* doublex.py: what analyze_directory does with a directory.               *)
(***************************************************************************)
BACKGROUND == "background.js"
CONTENT_SCRIPT == "content_scripts.js"

\* analyze_directory(directory, args) without --skip-existing: found is
\* FALSE on "Required files not found", calls are the calls of
\* analyze_extension it makes
analyze_directory(fs, directory) ==
    IF IsFile(fs, directory, CONTENT_SCRIPT)
    THEN [found |-> TRUE,
          calls |-> (IF IsFile(fs, directory, BACKGROUND)
                     THEN <<[cs |-> CONTENT_SCRIPT, other |-> BACKGROUND]>>
                     ELSE <<>>)
                    \o (IF IsFile(fs, directory, "wars.js")
                        THEN <<[cs |-> CONTENT_SCRIPT, other |-> "wars.js"]>>
                        ELSE <<>>)]
    ELSE [found |-> FALSE, calls |-> <<>>]

(***************************************************************************)
(* The inputs of the model: paths, scripts, archives.                      *)
(***************************************************************************)
AJs == <<"a", ".", "j", "s">>
BJs == <<"b", ".", "j", "s">>
XJs == <<"x", ".", "j", "s">>
SwJs == <<"s", "w", ".", "j", "s">>
BgHtm == <<"b", "g", ".", "h", "t", "m">>
WHtm == <<"w", "/", "w", ".", "h", "t", "m">>
StarHtm == <<"*", ".", "h", "t", "m">>
WStarHtm == <<"w", "/", "*", ".", "h", "t", "m">>
JqJs == <<"J", "Q", ".", "j", "s">>
JqMinJs == <<"j", "q", ".", "m", "i", "n", ".", "j", "s">>
JQueryJs == <<"x", "/", "j", "Q", "u", "e", "r", "y", ".", "j", "s">>
EJs == <<"e", ".", "j", "s">>
MJs == <<"m", ".", "j", "s">>
HttpsXJs == <<"h", "t", "t", "p", "s", ":", "/", "/">> \o XJs
XJsQuery == XJs \o <<"?", "1">>
UpperXJs == <<"X", ".", "j", "s">>
UpperBJs == <<"B", ".", "j", "s">>
DotXJs == <<".", "x", ".", "j", "s">>

\* an archive at path filename: whether ZipFile opens it, and its entries
Archive(filename, ok, entries) ==
    [filename |-> filename, ok |-> ok, entries |-> entries]

\* the entries every archive of the model has besides its manifest
Scripts ==
    << [name |-> UpperXJs, data |-> Text(<<"X">>)],
       [name |-> DotXJs, data |-> Text(<<"d">>)],
       [name |-> AJs, data |-> Text(<<"a", " ", "use strict">>)],
       [name |-> BJs, data |-> Text(<<"b">>)],
       [name |-> XJs, data |-> Text(<<"x", " ", "...">>)],
       [name |-> SwJs, data |-> Text(<<"s">>)],
       [name |-> JqJs, data |-> Text(<<"q">>)],
       [name |-> JqMinJs, data |-> Text(<<"q">>)],
       [name |-> JQueryJs, data |-> Text(<<"q">>)],
       [name |-> EJs, data |-> Empty],
       [name |-> BgHtm, data |-> Html(<<InlineTag(<<"i", " ">>), SrcTag(XJs)>>)],
       [name |-> WHtm, data |-> Html(<<SrcTag(<<"/">> \o BJs), InlineTag(<<"w">>),
                            SrcTag(<<"/">> \o AJs)>>)] >>

\* an archive whose manifest.json holds content
Crx(filename, content) ==
    Archive(filename, TRUE, <<[name |-> ManifestJson, data |-> content]>> \o Scripts)

\* the manifests the model draws from
Versions == {1, 2, 3}
ContentScriptChoices ==
    { <<>>, <<Group(<<AJs, BJs>>), Group(<<AJs>>)>>, <<Group(<<NonStr>>)>>,
      <<Group(<<BJs, AJs, BJs>>)>>,
      <<Group(<<JqJs, MJs, AJs, JqMinJs>>),
        Group(<<HttpsXJs, EJs, AJs, XJsQuery, JQueryJs>>)>>,
      <<Group(<<UpperBJs, DotXJs, UpperXJs, XJs, MJs>>)>> }
BackgroundChoices ==
    { NoBackground, Background(<<AJs, NonStr>>, None, SwJs),
      Background(<<>>, BgHtm, None), Background(<<BJs, NaN>>, None, None),
      Background(<<BJs>>, BgHtm, NonStr) }
WarChoices ==
    { NoWar, War(<<Glob(StarHtm)>>), War(<<Rule(<<StarHtm>>)>>),
      War(<<Rule(<<WStarHtm>>)>>), War(<<Glob(WStarHtm), Glob(StarHtm)>>) }
Manifests ==
    { Manifest(t, v, cs, bg, w) :
        t \in BOOLEAN, v \in Versions, cs \in ContentScriptChoices,
        bg \in BackgroundChoices, w \in WarChoices }

\* what manifest.json may hold
ManifestContents ==
    {Json(m) : m \in Manifests} \cup {Json(ListManifest), Text(<<"{">>)}

\* the archives that may be found at path filename
Archives(filename) ==
    {Crx(filename, c) : c \in ManifestContents}
    \cup {Archive(filename, FALSE, <<>>), Archive(filename, TRUE, Scripts)}

\* the files below the root of the batch run, and the archive in each
CrxA == <<"r", "/", "c", ".", "c", "r", "x">>
CrxB == <<"r", "/", "b", ".", "c", "r", "x">>
CrxC == <<"r", "/", "s", "/", "c", ".", "c", "r", "x">>
CrxD == <<"r", "/", "d", ".", "c", "r", "x", ".", "c", "r", "x">>
CrxF == <<"r", "/", "s", "_", "c", ".", "c", "r", "x">>
TxtN == <<"r", "/", "n", ".", "t", "x", "t">>
OutDir == <<"o">>

BatchDisk ==
    (CrxA :> Crx(CrxA, Json(Manifest(FALSE, 2, <<Group(<<AJs>>)>>,
                                      Background(<<>>, BgHtm, None),
                                      War(<<Glob(StarHtm)>>)))))
    @@ (CrxB :> Crx(CrxB, Json(Manifest(TRUE, 2, <<>>, NoBackground, NoWar))))
    @@ (CrxC :> Crx(CrxC, Json(Manifest(FALSE, 3, <<Group(<<AJs>>)>>,
                                         NoBackground, NoWar))))
    @@ (CrxD :> Crx(CrxD, Json(Manifest(FALSE, 3, <<Group(<<NonStr>>)>>,
                                         NoBackground, NoWar))))
    @@ (CrxF :> Crx(CrxF, Json(Manifest(FALSE, 2, <<Group(<<AJs>>)>>,
                                         NoBackground, NoWar))))
    @@ (TxtN :> Archive(TxtN, FALSE, <<>>))

\* the orders in which os.walk may yield the files: the sequences of at
\* most MaxFiles files, no file twice
Walks ==
    UNION {{w \in [1..n -> DOMAIN BatchDisk] : \A i, j \in 1..n : w[i] = w[j] => i = j} :
           n \in 0..MaxFiles}

(***************************************************************************)
(* State.                                                                  *)
(*   disk      the archive stored at each path (never written)             *)
(*   argsd     args.d: the destination override, None without -d           *)
(*   argspc    args.pc: the number of consumer processes                   *)
(*   fs        the file system below the destinations                      *)
(* unpack_directory (the batch run):                                       *)
(*   tree      the files os.walk yields, in order                          *)
(*   walked    how many of them the producer has looked at                 *)
(*   ppc       the producer: "walk", "sentinel", "done"                    *)
(*   queue     the multiprocessing.Queue: paths, and None the sentinel     *)
(*   pc        each consumer: "get", "reput", "unpack", "read", "write",   *)
(*             "done" (left the loop), "crashed" (died of an exception)    *)
(*   item      each consumer's local item                                  *)
(*   tmp       the counter.value each consumer read for its `+= 1`         *)
(*   counter   the shared Value('i', 0)                                    *)
(*   mainpc    unpack_directory: "join", "reported"                        *)
(*   reported  the counter.value unpack_directory logged                   *)
(*   calls     for each path, the calls of unpack_extension on it, in      *)
(*             order: which consumer made it and how it ended (history)    *)
(*   seen      how many times each consumer got the sentinel (history)     *)
(*   trace     what each consumer has done, in order: the items it got,    *)
(*             the items it passed to unpack_extension, its increments of  *)
(*             the counter (history)                                       *)
(* main() on one archive, followed by doublex on its output:               *)
(*   u         the call of unpack_extension                                *)
(*   analysis  what analyze_directory did with u.dest, or NotAnalyzed      *)
(*   runs      the file system as each earlier run of main() on the        *)
(*             archive left it (history)                                   *)
(* beautify_script called on its own, one call after the other:            *)
(*   beautify  [pc, todo, suffix, content, temp_file, files, given, out]:  *)
(*             the statement the call is at ("idle" between two calls),    *)
(*             the contents still to be passed, the suffix they are passed *)
(*             with, the locals content and temp_file, the files in /tmp,  *)
(*             the contents the calls were given and the contents they     *)
(*             returned (history)                                          *)
(* A part that does not run has its program counters "off".                *)
(***************************************************************************)
VARIABLES disk, argsd, argspc, fs, tree, walked, ppc, queue, pc, item, tmp, counter,
          mainpc, reported, calls, seen, u, analysis, runs, trace, beautify

vars == <<disk, argsd, argspc, fs, tree, walked, ppc, queue, pc, item, tmp, counter,
          mainpc, reported, calls, seen, u, analysis, runs, trace,
                   beautify>>

batchVars == <<tree, walked, ppc, queue, pc, item, tmp, counter, mainpc,
               reported, calls, seen, trace>>

Consumers == 1..argspc

NoCall == [pc |-> "off", crx |-> <<>>, dest |-> <<>>, manifest |-> NoManifest,
           wrote |-> <<>>]
NoBeautify ==
    [pc |-> "off", todo |-> <<>>, suffix |-> <<>>, content |-> <<>>,
     temp_file |-> TempFile(<<>>, <<>>), files |-> {}, given |-> <<>>,
     out |-> <<>>]
NotAnalyzed == [found |-> FALSE, calls |-> <<[cs |-> "", other |-> ""]>>]

\* dest = args.d or os.path.dirname(item)
DestOf(d, path) == IF Truthy(d) THEN d ELSE Dirname(path)

(***************************************************************************)
(* unpack_directory: one producer, args.pc consumers, the parent.          *)
(***************************************************************************)
Init ==
    /\ disk = BatchDisk
    /\ argsd \in {None, OutDir}
    /\ argspc \in 1..MaxConsumers
    /\ fs = EmptyFs
    /\ tree \in Walks
    /\ walked = 0
    /\ ppc = "walk"
    /\ queue = <<>>
    /\ pc = [c \in Consumers |-> "get"]
    /\ item = [c \in Consumers |-> None]
    /\ tmp = [c \in Consumers |-> 0]
    /\ counter = 0
    /\ mainpc = "join"
    /\ reported = -1
    /\ calls = [p \in DOMAIN BatchDisk |-> <<>>]
    /\ seen = [c \in Consumers |-> 0]
    /\ trace = [c \in Consumers |-> <<>>]
    /\ beautify = NoBeautify
    /\ u = NoCall
    /\ analysis = NotAnalyzed
    /\ runs = <<>>

\* what the producer puts for the file it looks at: the path of a .crx file
ProducerPuts(file) == IF EndsWith(Basename(file), DotCrx) THEN <<file>> ELSE <<>>

\* a queue that hands out the item put last
PutInFront(q, items) == items \o q

\* queue.put of each of items on the FIFO q
Put(q, items) == q \o items

\* producer, one file of the walk
ProducerWalk ==
    /\ ppc = "walk"
    /\ walked < Len(tree)
    /\ queue' = Put(queue, ProducerPuts(tree[walked + 1]))
    /\ walked' = walked + 1
    /\ UNCHANGED <<disk, argsd, argspc, fs, tree, ppc, pc, item, tmp, counter, mainpc,
                   reported, calls, seen, u, analysis, runs, trace,
                   beautify>>

\* producer, file_queue.put(None) after the walk
ProducerSentinel ==
    /\ ppc = "walk"
    /\ walked = Len(tree)
    /\ queue' = Put(queue, <<None>>)
    /\ ppc' = "done"
    /\ UNCHANGED <<disk, argsd, argspc, fs, tree, walked, pc, item, tmp, counter, mainpc,
                   reported, calls, seen, u, analysis, runs, trace,
                   beautify>>

\* a consumer that does not leave its loop on the sentinel
AfterGetNoBreak(got) == IF got = None THEN "get" ELSE "unpack"

\* a consumer that gets the next item without processing the one it got
AfterGetDropsItem(got) == IF got = None THEN "reput" ELSE "get"

\* where a consumer goes with the item it got
AfterGet(got) == IF got = None THEN "reput" ELSE "unpack"

\* consumer, item = queue.get() and the test `item is None`
Get(c) ==
    /\ pc[c] = "get"
    /\ queue # <<>>
    /\ item' = [item EXCEPT ![c] = Head(queue)]
    /\ queue' = Tail(queue)
    /\ pc' = [pc EXCEPT ![c] = AfterGet(Head(queue))]
    /\ seen' = [seen EXCEPT ![c] = IF Head(queue) = None THEN @ + 1 ELSE @]
    /\ trace' = [trace EXCEPT ![c] = Append(@, [op |-> "get", item |-> Head(queue)])]
    /\ UNCHANGED <<disk, argsd, argspc, fs, tree, walked, ppc, tmp, counter, mainpc,
                   reported, calls, u, analysis, runs,
                   beautify>>

\* a consumer that does not put the sentinel back
SentinelNotPut(c) == <<>>

\* a consumer that puts the sentinel back unless it is the last one running
SentinelPutUnlessLast(c) ==
    IF \A d \in Consumers \ {c} : pc[d] \in {"done", "crashed"} THEN <<>> ELSE <<None>>

\* a consumer that puts two sentinels for the one it got
SentinelPutTwice(c) == <<None, None>>

\* what a consumer that got the sentinel puts back
SentinelPut(c) == <<None>>

\* consumer, queue.put(None); break
RePut(c) ==
    /\ pc[c] = "reput"
    /\ queue' = Put(queue, SentinelPut(c))
    /\ pc' = [pc EXCEPT ![c] = "done"]
    /\ UNCHANGED <<disk, argsd, argspc, fs, tree, walked, ppc, item, tmp, counter, mainpc,
                   reported, calls, seen, u, analysis, runs, trace,
                   beautify>>

\* a consumer that does not count the calls that returned early
AfterUnpackSkipNotCounted(ended) ==
    IF ended = "raised" THEN "crashed" ELSE IF ended = "skip" THEN "get" ELSE "read"

\* where a consumer goes when its call of unpack_extension ended in state
\* ended: an exception is not caught in consumer
AfterUnpack(ended) == IF ended = "raised" THEN "crashed" ELSE "read"

\* consumer, unpack_extension(extension_crx=item, dest=dest)
Unpack(c) ==
    /\ pc[c] = "unpack"
    /\ \E order \in Orders(WarSetOf(disk[item[c]])) :
         \E r \in {unpack_extension(item[c], DestOf(argsd, item[c]),
                                    disk[item[c]], fs, order)} :
             /\ fs' = r.fs
             /\ calls' = [calls EXCEPT ![item[c]] =
                                    Append(@, [by |-> c, ended |-> r.u.pc])]
             /\ pc' = [pc EXCEPT ![c] = AfterUnpack(r.u.pc)]
    /\ trace' = [trace EXCEPT ![c] = Append(@, [op |-> "unpack", item |-> item[c]])]
    /\ UNCHANGED <<disk, argsd, argspc, tree, walked, ppc, queue, item, tmp, counter,
                   mainpc, reported, seen, u, analysis, runs,
                   beautify>>

\* consumer, the read of counter.value in `counter.value += 1`
ReadCounter(c) ==
    /\ pc[c] = "read"
    /\ tmp' = [tmp EXCEPT ![c] = counter]
    /\ pc' = [pc EXCEPT ![c] = "write"]
    /\ UNCHANGED <<disk, argsd, argspc, fs, tree, walked, ppc, queue, item, counter,
                   mainpc, reported, calls, seen, u, analysis, runs, trace,
                   beautify>>

\* consumer, the write of counter.value in `counter.value += 1`
WriteCounter(c) ==
    /\ pc[c] = "write"
    /\ counter' = tmp[c] + 1
    /\ pc' = [pc EXCEPT ![c] = "get"]
    /\ trace' = [trace EXCEPT ![c] = Append(@, [op |-> "inc", item |-> item[c]])]
    /\ UNCHANGED <<disk, argsd, argspc, fs, tree, walked, ppc, queue, item, tmp, mainpc,
                   reported, calls, seen, u, analysis, runs,
                   beautify>>

Ended(c) == pc[c] \in {"done", "crashed"}

\* a parent that waits for the producer alone
JoinedProducerOnly == ppc = "done"

\* publisher.join() and every consumers[i].join() have returned
Joined == ppc = "done" /\ \A c \in Consumers : Ended(c)

\* unpack_directory, after every join: logging.info(counter.value)
Report ==
    /\ mainpc = "join"
    /\ Joined
    /\ reported' = counter
    /\ mainpc' = "reported"
    /\ UNCHANGED <<disk, argsd, argspc, fs, tree, walked, ppc, queue, pc, item, tmp,
                   counter, calls, seen, u, analysis, runs, trace,
                   beautify>>

Producer == ProducerWalk \/ ProducerSentinel

Consumer(c) ==
    /\ c \in Consumers
    /\ (Get(c) \/ RePut(c) \/ Unpack(c) \/ ReadCounter(c) \/ WriteCounter(c))

Next ==
    \/ ProducerWalk
    \/ ProducerSentinel
    \/ \E c \in Consumers : Get(c)
    \/ \E c \in Consumers : RePut(c)
    \/ \E c \in Consumers : Unpack(c)
    \/ \E c \in Consumers : ReadCounter(c)
    \/ \E c \in Consumers : WriteCounter(c)
    \/ Report

Spec == Init /\ [][Next]_vars

\* every process that can take a step eventually takes one
FairSpec ==
    /\ Spec
    /\ WF_vars(Producer)
    /\ \A c \in 1..MaxConsumers : WF_vars(Consumer(c))
    /\ WF_vars(Report)

(***************************************************************************)
(* main() on a single archive (`unpack -s e.crx [-d o]`), statement by     *)
(* statement, then `doublex -dir` on the directory it wrote.               *)
(***************************************************************************)
CrxE == <<"r", "/", "e", ".", "c", "r", "x">>

\* a file system in which the directory given with -d exists already
PriorFs == MakeDirs(EmptyFs, OutDir)

UnpackInit ==
    /\ \E a \in Archives(CrxE) : disk = (CrxE :> a)
    /\ argsd \in {None, OutDir}
    /\ argspc = 1
    /\ fs \in {EmptyFs, PriorFs}
    /\ tree = <<>>
    /\ walked = 0
    /\ ppc = "off"
    /\ queue = <<>>
    /\ pc = [c \in Consumers |-> "off"]
    /\ item = [c \in Consumers |-> None]
    /\ tmp = [c \in Consumers |-> 0]
    /\ counter = 0
    /\ mainpc = "off"
    /\ reported = -1
    /\ calls = [p \in DOMAIN BatchDisk |-> <<>>]
    /\ seen = [c \in Consumers |-> 0]
    /\ trace = [c \in Consumers |-> <<>>]
    /\ beautify = NoBeautify
    /\ u = UnpackCall(CrxE, DestOf(argsd, CrxE))
    /\ analysis = NotAnalyzed
    /\ runs = <<>>

\* the statements of unpack_extension at position at
Statement(at) ==
    /\ u.pc = at
    /\ \E order \in Orders(WarSetOf(disk[u.crx])) :
         \E n \in {UnpackStep(u, disk[u.crx], fs, order)} :
             u' = n.u /\ fs' = n.fs
    /\ UNCHANGED <<disk, argsd, argspc, analysis, runs,
                   beautify>>
    /\ UNCHANGED batchVars

Load == Statement("load")

MakeDestination == Statement("mkdir")

WriteManifest == Statement("manifest")

WriteContentScripts == Statement("content")

WriteBackground == Statement("background")

WriteWars == Statement("wars")

\* doublex: analyze_directory(directory, args) on the directory written
Analyze ==
    /\ u.pc = "returned"
    /\ analysis = NotAnalyzed
    /\ analysis' = analyze_directory(fs, u.dest)
    /\ UNCHANGED <<disk, argsd, argspc, fs, u, runs, beautify>>
    /\ UNCHANGED batchVars

\* main() run once more on the same archive with the same arguments, after
\* a run that wrote its output
RunAgain ==
    /\ u.pc = "returned"
    /\ Len(runs) < MaxReruns
    /\ runs' = Append(runs, fs)
    /\ u' = UnpackCall(u.crx, DestOf(argsd, u.crx))
    /\ UNCHANGED <<disk, argsd, argspc, fs, analysis, beautify>>
    /\ UNCHANGED batchVars

UnpackNext ==
    \/ Load
    \/ MakeDestination
    \/ WriteManifest
    \/ WriteContentScripts
    \/ WriteBackground
    \/ WriteWars
    \/ Analyze
    \/ RunAgain

UnpackSpec == UnpackInit /\ [][UnpackNext]_vars

(***************************************************************************)
(* beautify_script(content, suffix) statement by statement, called for one *)
(* content after the other with the suffix of one job.                     *)
(***************************************************************************)
\* the script texts passed to beautify_script
ScriptTexts == {<<"a">>, <<"a", " ", "b">>, <<" ">>}

\* the sequences of at most MaxCalls script texts
TextSequences == UNION {[1..n -> ScriptTexts] : n \in 0..MaxCalls}

\* a /tmp in which the file stays after os.unlink
NotUnlinked(files, temp_file) == files

\* /tmp after os.unlink(temp_file)
Unlinked(files, temp_file) == {f \in files : f.path # temp_file}

\* /tmp after open(temp_file, "w").write(content)
TempWritten(files, temp_file, content) ==
    Unlinked(files, temp_file) \cup {[path |-> temp_file, data |-> content]}

\* open(temp_file, "r").read()
TempRead(files, temp_file) == (CHOOSE f \in files : f.path = temp_file).data

BeautifyInit ==
    /\ disk = BatchDisk
    /\ argsd = None
    /\ argspc = 1
    /\ fs = EmptyFs
    /\ tree = <<>>
    /\ walked = 0
    /\ ppc = "off"
    /\ queue = <<>>
    /\ pc = [c \in Consumers |-> "off"]
    /\ item = [c \in Consumers |-> None]
    /\ tmp = [c \in Consumers |-> 0]
    /\ counter = 0
    /\ mainpc = "off"
    /\ reported = -1
    /\ calls = [p \in DOMAIN BatchDisk |-> <<>>]
    /\ seen = [c \in Consumers |-> 0]
    /\ trace = [c \in Consumers |-> <<>>]
    /\ u = NoCall
    /\ analysis = NotAnalyzed
    /\ runs = <<>>
    /\ \E todo \in TextSequences, suffix \in {CrxC, CrxF} :
          beautify = [NoBeautify EXCEPT !.pc = "idle", !.todo = todo,
                                        !.suffix = suffix]

\* the frame of the statements of beautify_script
BeautifyFrame ==
    /\ UNCHANGED <<disk, argsd, argspc, fs, u, analysis, runs>>
    /\ UNCHANGED batchVars

\* lines 83-84: the call, filehash and temp_file
BeautifyCall ==
    /\ beautify.pc = "idle"
    /\ beautify.todo # <<>>
    /\ beautify' = [beautify EXCEPT
                       !.pc = "write",
                       !.content = Head(beautify.todo),
                       !.given = Append(@, Head(beautify.todo)),
                       !.temp_file = TempFile(Head(beautify.todo), beautify.suffix)]
    /\ BeautifyFrame

\* lines 86-87: the content is written to the temp file
BeautifyWrite ==
    /\ beautify.pc = "write"
    /\ beautify' = [beautify EXCEPT
                       !.pc = "system",
                       !.files = TempWritten(@, beautify.temp_file, beautify.content)]
    /\ BeautifyFrame

\* line 88: js-beautify rewrites the temp file in place
BeautifySystem ==
    /\ beautify.pc = "system"
    /\ beautify' = [beautify EXCEPT
                       !.pc = "read",
                       !.files = TempWritten(@, beautify.temp_file,
                                    JsBeautify(TempRead(@, beautify.temp_file)))]
    /\ BeautifyFrame

\* lines 90-91: the temp file is read back
BeautifyRead ==
    /\ beautify.pc = "read"
    /\ beautify' = [beautify EXCEPT
                       !.pc = "unlink",
                       !.content = TempRead(beautify.files, beautify.temp_file)]
    /\ BeautifyFrame

\* line 92: os.unlink(temp_file)
BeautifyUnlink ==
    /\ beautify.pc = "unlink"
    /\ beautify' = [beautify EXCEPT
                       !.pc = "return",
                       !.files = Unlinked(beautify.files, beautify.temp_file)]
    /\ BeautifyFrame

\* line 94: return content
BeautifyReturn ==
    /\ beautify.pc = "return"
    /\ beautify' = [beautify EXCEPT
                       !.pc = "idle",
                       !.todo = Tail(@),
                       !.out = Append(@, beautify.content)]
    /\ BeautifyFrame

BeautifyNext ==
    \/ BeautifyCall
    \/ BeautifyWrite
    \/ BeautifySystem
    \/ BeautifyRead
    \/ BeautifyUnlink
    \/ BeautifyReturn

BeautifySpec == BeautifyInit /\ [][BeautifyNext]_vars

(***************************************************************************)
(* Properties of the batch run.                                            *)
(***************************************************************************)
\* the jobs: the positions of the walk whose file the producer enqueues
Jobs == {i \in 1..Len(tree) : ProducerPuts(tree[i]) # <<>>}

\* every process of the batch run is over
AllEnded == ppc = "done" /\ \A c \in Consumers : Ended(c)

\* the calls of unpack_extension made so far, as <<path, position>>
CallsMade == UNION {{<<p, k>> : k \in 1..Len(calls[p])} : p \in DOMAIN calls}

\* the calls that returned, early (Skip) or after the last statement
CallsReturned == {pk \in CallsMade : calls[pk[1]][pk[2]].ended # "raised"}

\* how many sentinels the queue holds
SentinelsQueued == Cardinality({i \in 1..Len(queue) : queue[i] = None})

\* the archive passed manifest validation: it opened, the manifest parsed,
\* has no theme key, and its manifest_version is 2 or 3
PassedValidation(extension_zip) ==
    /\ extension_zip.ok
    /\ read_from_zip(extension_zip, ManifestJson).kind = "json"
    /\ With(ManifestOf(extension_zip),
            LAMBDA manifest : /\ manifest.json = "dict"
                              /\ ~manifest.theme
                              /\ manifest.manifest_version \in {2, 3})

\* C1: under fair scheduling the producer and every consumer eventually
\* terminate and stay terminated, whatever the files, the number of
\* consumers and the interleaving: no consumer waits in queue.get forever.
C1_AllTerminate == <>[]AllEnded

\* C1, witness: a run with two jobs in which both of two consumers left
\* their loop on the sentinel.
C1_Witness ==
    /\ AllEnded /\ argspc = 2 /\ Cardinality(Jobs) = 2
    /\ \A c \in Consumers : pc[c] = "done"

C3_NoLostIncrement ==
    counter = Cardinality(CallsReturned)
              - Cardinality({c \in Consumers : pc[c] \in {"read", "write"}})

\* C4: a call of unpack_extension that fails leaves its consumer alive,
\* and every job is processed by the time all processes are over.
C4_FailureContained ==
    /\ \A c \in Consumers : pc[c] # "crashed"
    /\ AllEnded => \A i \in Jobs : calls[tree[i]] # <<>>

\* C5 as stated: once a consumer has exited, every consumer has observed
\* the sentinel, exactly once.
C5_AllSeenBeforeAnyExit ==
    (\E c \in Consumers : pc[c] = "done") => \A c \in Consumers : seen[c] = 1

\* C5, amended: a consumer observes the sentinel at most once, and it has
\* observed it exactly when it is leaving or has left its loop; it does not
\* wait for the other consumers to observe it.
C5_SeenOnceBeforeOwnExit ==
    \A c \in Consumers :
        /\ seen[c] <= 1
        /\ seen[c] = 1 <=> pc[c] \in {"reput", "done"}

\* C5, witness: one consumer has exited and another has not yet observed
\* the sentinel.
C5_Witness ==
    \E c, d \in Consumers : pc[c] = "done" /\ seen[c] = 1 /\ seen[d] = 0 /\ pc[d] = "get"

C7_EveryJobExactlyOnce ==
    /\ \A p \in DOMAIN calls : Len(calls[p]) <= 1
    /\ AllEnded => \A i \in Jobs : Len(calls[tree[i]]) = 1

(***************************************************************************)
(* Properties of one call of unpack_extension and of the analysis of its   *)
(* output.                                                                 *)
(***************************************************************************)
\* the fragments of the bundle written as dir/name
FragmentsOf(dir, name) ==
    UNION {{f.data.frags[i] : i \in 1..Len(f.data.frags)} :
           f \in {g \in fs.files : g.dir = dir /\ g.name = name /\ g.data.kind = "bundle"}}

\* the call loaded a v2 manifest whose background.page is the page with one
\* inline script and one <script src="x.js">
BackgroundPageCase ==
    /\ u.manifest.json = "dict"
    /\ u.manifest.manifest_version = 2
    /\ u.manifest.background = Background(<<>>, BgHtm, None)

\* C8: a call of unpack_extension that returns early (the archive does not
\* open, the manifest does not parse, the manifest has a theme key, or
\* manifest_version is not 2 or 3) leaves the file system as it was: no
\* directory made, no file written.
C8_SkipLeavesFsUnchanged == [][u'.pc = "skip" => fs' = fs]_vars

\* C8, witness: a call returned early on a manifest that parsed (theme key
\* or unsupported version) and the file system is the one it started with.
C8_Witness ==
    /\ u.pc = "skip" /\ u.manifest # NoManifest
    /\ fs = PriorFs

\* C9: for a v2 manifest whose background.page holds one inline script and
\* one <script src="x.js">, the background.js written holds the inline
\* script as an inline fragment and the content of x.js.
C9_BackgroundHasInlineAndFile ==
    (BackgroundPageCase /\ IsFile(fs, u.dest, "background.js")) =>
        /\ \E frag \in FragmentsOf(u.dest, "background.js") :
              frag.tag = "inline" /\ frag.body = <<"i">>
        /\ \E frag \in FragmentsOf(u.dest, "background.js") :
              frag.tag = "file" /\ frag.from = XJs /\ frag.body = <<"x">>

\* C10: analyze_directory, run on the directory a completed call of
\* unpack_extension wrote, finds the content-script file and does not take
\* the "Required files not found" branch.
C10_OutputAccepted ==
    analysis # NotAnalyzed => analysis.found

\* the call has loaded its manifest and the bundle name is in its
\* destination
Written(name) == u.manifest # NoManifest /\ IsFile(fs, u.dest, name)

\* the paths of the file fragments of the bundle written as dir/name, in
\* the order of the fragments
RECURSIVE FilesOf(_)
FilesOf(frags) ==
    IF frags = <<>> THEN <<>>
    ELSE (IF Head(frags).tag = "file" THEN <<Head(frags).from>> ELSE <<>>)
         \o FilesOf(Tail(frags))

\* the fragments of the bundle written as dir/name, in order
WrittenBundle(dir, name) ==
    (CHOOSE f \in fs.files : f.dir = dir /\ f.name = name).data.frags

\* the js lists of the content_scripts groups, one after the other
RECURSIVE ListedJs(_)
ListedJs(content_scripts) ==
    IF content_scripts = <<>> THEN <<>>
    ELSE Head(content_scripts).js \o ListedJs(Tail(content_scripts))

\* the position of the first occurrence of x in xs
FirstAt(xs, x) == CHOOSE i \in 1..Len(xs) : xs[i] = x /\ \A j \in 1..(i - 1) : xs[j] # x

\* C11: the content-script bundle holds each path once, in the order of
\* the first occurrences of the paths in the js lists of the groups taken
\* one after the other; for the lists [a.js, b.js] and [a.js] it holds
\* a.js then b.js.
C11_ContentScriptsOnceInOrder ==
    Written(CONTENTSCRIPT_JS) =>
        LET files == FilesOf(WrittenBundle(u.dest, CONTENTSCRIPT_JS))
            listed == ListedJs(u.manifest.content_scripts)
        IN  /\ \A i, j \in 1..Len(files) :
                  i < j => /\ files[i] # files[j]
                           /\ FirstAt(listed, files[i]) < FirstAt(listed, files[j])
            /\ listed = <<AJs, BJs, AJs>> => files = <<AJs, BJs>>

\* C11, witness: the bundle of a manifest that lists a.js, b.js, a.js is
\* written and holds a.js then b.js.
C11_Witness ==
    /\ Written(CONTENTSCRIPT_JS)
    /\ ListedJs(u.manifest.content_scripts) = <<AJs, BJs, AJs>>
    /\ FilesOf(WrittenBundle(u.dest, CONTENTSCRIPT_JS)) = <<AJs, BJs>>

\* the filter policy: the path contains, whatever the case of its letters,
\* jquery, jq.min.js or jq.js, or does not end in .js, or starts with
\* https://
ExcludedByPolicy(path) ==
    \/ \E word \in {<<"j", "q", "u", "e", "r", "y">>,
                     <<"j", "q", ".", "m", "i", "n", ".", "j", "s">>,
                     <<"j", "q", ".", "j", "s">>} : Contains(Lower(path), word)
    \/ ~EndsWith(path, <<".", "j", "s">>)
    \/ StartsWith(path, <<"h", "t", "t", "p", "s", ":", "/", "/">>)

\* the script paths that the harvest of the bundle written as name refers
\* to: the listed content scripts, the background scripts of the manifest
\* version, the scripts of the scanned web accessible pages
ReferencedBy(name) ==
    LET manifest == u.manifest
        extension_zip == disk[u.crx]
        listed == IF name = CONTENTSCRIPT_JS
                  THEN ListedJs(manifest.content_scripts)
                  ELSE IF manifest.background.kind # "dict" THEN <<>>
                  ELSE IF manifest.manifest_version = 2
                      THEN BackgroundScriptListV2(manifest, extension_zip)
                  ELSE <<manifest.background.service_worker>>
    IN  IF name = "wars.js"
        THEN WarScriptSet(manifest, extension_zip, manifest.manifest_version)
        ELSE {listed[i] : i \in 1..Len(listed)}

\* C12: in each of the three bundles written, no file fragment comes from
\* a path the filter policy excludes, and every path the harvest refers to
\* that the policy does not exclude and whose archive entry is not empty
\* has its file fragment.
C12_FilterPolicy ==
    \A name \in {CONTENTSCRIPT_JS, "background.js", "wars.js"} :
        Written(name) =>
            LET files == FilesOf(WrittenBundle(u.dest, name))
                embedded == {files[i] : i \in 1..Len(files)}
            IN  /\ \A path \in embedded : ~ExcludedByPolicy(path)
                /\ \A path \in ReferencedBy(name) :
                      (IsStr(path) /\ ~ExcludedByPolicy(path)
                       /\ read_from_zip(disk[u.crx], path) # Empty)
                          => path \in embedded

\* C12, witness: a content bundle written for a manifest that lists JQ.js,
\* jq.min.js, x/jQuery.js, https://x.js, x.js?1 and a.js holds a.js alone.
C12_Witness ==
    /\ Written(CONTENTSCRIPT_JS)
    /\ {JqJs, JqMinJs, JQueryJs, HttpsXJs, XJsQuery, AJs}
           \subseteq ReferencedBy(CONTENTSCRIPT_JS)
    /\ FilesOf(WrittenBundle(u.dest, CONTENTSCRIPT_JS)) = <<AJs>>

\* the globs the manifest declares as web accessible: the items of the
\* flat list (v2), the members of every resources list (v3)
DeclaredGlobs(manifest) ==
    LET items == manifest.war.items
    IN  IF manifest.manifest_version = 2
        THEN {items[i].glob : i \in {j \in 1..Len(items) : items[j].kind = "glob"}}
        ELSE UNION {{items[i].resources[k] : k \in 1..Len(items[i].resources)} :
                    i \in {j \in 1..Len(items) : items[j].kind = "rule"}}

\* the entry is to be scanned: it matches a declared glob, its name
\* contains .htm, and it is not the declared background page
ToBeScanned(manifest, entry) ==
    /\ \E glob \in DeclaredGlobs(manifest) : FnMatch(entry, glob)
    /\ Contains(entry, <<".", "h", "t", "m">>)
    /\ ~(manifest.background.kind = "dict" /\ manifest.background.page = entry)

\* the entries whose inline scripts wars.js holds: the entries that were
\* HTML-parsed and have an inline script
ScannedInto(frags) ==
    {frags[i].from : i \in {j \in 1..Len(frags) : frags[j].tag = "inline"}}

\* the HTML entries of the archive that hold an inline script
PagesWithInline(extension_zip) ==
    {extension_zip.entries[i].name :
        i \in {j \in 1..Len(extension_zip.entries) :
                 \E k \in 1..Len(FindAllScript(extension_zip.entries[j].data)) :
                    ~FindAllScript(extension_zip.entries[j].data)[k].hasSrc}}

\* C13: the entries scanned for wars.js are the entries that match a
\* declared glob, contain .htm and are not the background page; with the
\* v3 rule resources = [w/*.htm] the page w/w.htm is scanned and bg.htm,
\* which does not match, is not.
C13_ScannedIffWhitelisted ==
    Written("wars.js") =>
        LET scanned == ScannedInto(WrittenBundle(u.dest, "wars.js"))
        IN  /\ \A entry \in PagesWithInline(disk[u.crx]) :
                  entry \in scanned <=> ToBeScanned(u.manifest, entry)
            /\ (u.manifest.manifest_version = 3
                 /\ u.manifest.war = War(<<Rule(<<WStarHtm>>)>>))
                    => scanned = {WHtm}

\* C13, witness: wars.js is written for a v3 manifest with the rule
\* resources = [w/*.htm] and no background page; w/w.htm was scanned and
\* bg.htm, which holds an inline script too, was not.
C13_Witness ==
    /\ Written("wars.js")
    /\ u.manifest.manifest_version = 3
    /\ u.manifest.war = War(<<Rule(<<WStarHtm>>)>>)
    /\ u.manifest.background = NoBackground
    /\ BgHtm \in PagesWithInline(disk[u.crx])
    /\ ScannedInto(WrittenBundle(u.dest, "wars.js")) = {WHtm}

\* C14: a second run on the same archive into the same destination leaves
\* the files of the first run, each with the content the first run wrote,
\* the order of the fragments of wars.js included.
C14_SecondRunSameFiles ==
    (u.pc = "returned" /\ runs # <<>>) => fs = runs[Len(runs)]

\* the call has loaded a manifest that lists, among its content scripts,
\* the script m.js that the archive does not hold under any case
MissingScriptListed ==
    /\ u.manifest # NoManifest
    /\ u.manifest.json = "dict"
    /\ \E i \in 1..Len(ListedJs(u.manifest.content_scripts)) :
          ListedJs(u.manifest.content_scripts)[i] = MJs
    /\ \A i \in 1..Len(disk[u.crx].entries) :
          Lower(disk[u.crx].entries[i].name) # Lower(MJs)

\* the four output files are in the destination of the call
FourFilesWritten ==
    \A name \in {"manifest.json", CONTENTSCRIPT_JS, "background.js", "wars.js"} :
        IsFile(fs, u.dest, name)

\* C15: a call whose manifest lists a content script that the archive does
\* not hold gets past the content-script statement and writes
\* contentscript.js without a fragment for the missing script, the other
\* listed scripts with the fragments they have otherwise (a.js and x.js
\* with their text); it is not the missing script that makes a call raise,
\* and a call that returned has written the four files.
C15_MissingScriptContributesNothing ==
    MissingScriptListed =>
        /\ u.pc \in {"background", "wars", "returned", "raised"} =>
              /\ IsFile(fs, u.dest, CONTENTSCRIPT_JS)
              /\ LET frags == WrittenBundle(u.dest, CONTENTSCRIPT_JS)
                     listed == ListedJs(u.manifest.content_scripts)
                 IN  /\ \A i \in 1..Len(frags) : frags[i].from # MJs
                     /\ \A i \in 1..Len(listed) :
                           /\ listed[i] = AJs =>
                                 \E k \in 1..Len(frags) :
                                     frags[k] = FileFragment(AJs, <<"a">>)
                           /\ listed[i] = XJs =>
                                 \E k \in 1..Len(frags) :
                                     frags[k] = FileFragment(XJs, <<"x">>)
        /\ (u.manifest.background = NoBackground /\ u.manifest.war = NoWar)
              => u.pc # "raised"
        /\ u.pc = "returned" => FourFilesWritten

\* C15, witness: a call that lists the missing m.js has returned, the four
\* files are written and contentscript.js holds the fragment of a.js alone.
C15_Witness ==
    /\ MissingScriptListed
    /\ u.pc = "returned"
    /\ FourFilesWritten
    /\ FilesOf(WrittenBundle(u.dest, CONTENTSCRIPT_JS)) = <<AJs>>

\* the manifest that json.loads makes of the manifest.json in the
\* destination of the call
Reparsed ==
    JsonLoads((CHOOSE f \in fs.files :
                  f.dir = u.dest /\ f.name = "manifest.json").data.tree)

\* a NaN is among the values of the manifest
HoldsNaN(manifest) ==
    /\ manifest.background.kind = "dict"
    /\ \/ \E i \in 1..Len(manifest.background.scripts) :
              manifest.background.scripts[i] = NaN
       \/ manifest.background.page = NaN
       \/ manifest.background.service_worker = NaN

\* a == b on two parsed manifests: the same keys with equal values, and a
\* NaN is equal to no value, itself included
PyEqual(a, b) == a = b /\ ~HoldsNaN(a)

TempFilesOf(extension_crx) ==
    LET extension_zip == disk[extension_crx]
        order == CHOOSE o \in Orders(WarSetOf(extension_zip)) : TRUE
        r == unpack_extension(extension_crx, DestOf(argsd, extension_crx),
                              extension_zip, EmptyFs, order)
        bundles == {f \in r.fs.files : f.data.kind = "bundle"}
    IN  UNION {{TempFile(StripAndDecode(read_from_zip(extension_zip, script)),
                         extension_zip.filename) :
                   script \in {f.data.frags[i].from :
                                  i \in {k \in 1..Len(f.data.frags) :
                                           f.data.frags[k].tag = "file"}}} :
               f \in bundles}

\* two consumers are each in a call of unpack_extension, on distinct
\* archives
Concurrent(c, d) ==
    c # d /\ pc[c] = "unpack" /\ pc[d] = "unpack" /\ item[c] # item[d]

\* C17: two workers that process distinct archives at the same time use
\* no temp file in common in their calls of beautify_script.
C17_TempFilesDisjoint ==
    \A c, d \in Consumers :
        Concurrent(c, d) => TempFilesOf(item[c]) \cap TempFilesOf(item[d]) = {}

\* the destination directory a call on the archive writes into
DestinationOf(extension_crx) ==
    UnpackCall(extension_crx, DestOf(argsd, extension_crx)).dest

\* C18: two consumers that are each in a call of unpack_extension, on
\* distinct archives that pass validation, write into distinct
\* destination directories.
C18_DestinationsDistinct ==
    \A c, d \in Consumers :
        (Concurrent(c, d) /\ PassedValidation(disk[item[c]])
                          /\ PassedValidation(disk[item[d]]))
            => DestinationOf(item[c]) # DestinationOf(item[d])

\* the trace of a consumer is a run of rounds get, unpack, inc on one job
\* each, the last round possibly unfinished, or ended by the get of the
\* sentinel
RECURSIVE InRounds(_)
InRounds(t) ==
    IF t = <<>> THEN TRUE
    ELSE IF t[1].op # "get" THEN FALSE
    ELSE IF t[1].item = None THEN Len(t) = 1
    ELSE IF Len(t) = 1 THEN TRUE
    ELSE IF ~(t[2].op = "unpack" /\ t[2].item = t[1].item) THEN FALSE
    ELSE IF Len(t) = 2 THEN TRUE
    ELSE t[3].op = "inc" /\ t[3].item = t[1].item /\ InRounds(SubSeq(t, 4, Len(t)))

\* the items of the events op of a trace, in order
RECURSIVE ItemsOf(_, _)
ItemsOf(t, op) ==
    IF t = <<>> THEN <<>>
    ELSE (IF t[1].op = op /\ t[1].item # None THEN <<t[1].item>> ELSE <<>>)
         \o ItemsOf(Tail(t), op)

\* a sequence is the beginning of another
IsPrefix(s, t) == Len(s) <= Len(t) /\ SubSeq(t, 1, Len(s)) = s

\* each consumer works in rounds (it gets an item, passes that item to
\* unpack_extension, increments the counter, and only then gets the next),
\* so it holds at most one job that is not processed yet and processes its
\* jobs in the order it got them
WaitingProcessing ==
    \A c \in Consumers :
        /\ InRounds(trace[c])
        /\ IsPrefix(ItemsOf(trace[c], "unpack"), ItemsOf(trace[c], "get"))
        /\ Len(ItemsOf(trace[c], "get")) - Len(ItemsOf(trace[c], "unpack")) <= 1

\* a step in which a consumer that has terminated gets, processes and
\* increments nothing, and stays terminated
TerminatedForGood ==
    \A c \in Consumers :
        Ended(c) => /\ trace'[c] = trace[c]
                    /\ pc'[c] = pc[c]
                    /\ (counter' # counter => \E d \in Consumers \ {c} :
                                                 pc[d] = "write")

\* C19: each consumer goes waiting, processing, waiting, ..., terminated:
\* it holds at most one job at a time, gets the next item only after the
\* call of unpack_extension on the previous one has returned, processes
\* its jobs in the order it got them, and once terminated never gets,
\* processes or increments again.
C19_ConsumerStateMachine == []WaitingProcessing /\ [][TerminatedForGood]_vars

\* C19, witness: a consumer has terminated after two complete rounds on
\* two jobs, processed in the order it got them.
C19_Witness ==
    \E c \in Consumers :
        /\ pc[c] = "done"
        /\ Len(ItemsOf(trace[c], "get")) = 2
        /\ ItemsOf(trace[c], "unpack") = ItemsOf(trace[c], "get")
        /\ Len(trace[c]) = 7

\* C20: when unpack_directory has reported the counter, the producer and
\* every consumer have terminated, and the value it reported is the value
\* of the counter from then on: no increment follows the read.
C20_ReportedAfterAllEnded ==
    mainpc = "reported" =>
        /\ ppc = "done"
        /\ \A c \in Consumers : pc[c] \in {"done", "crashed"}
        /\ reported = counter

\* C20, witness: a run of two consumers has reported a counter of 2.
C20_Witness ==
    mainpc = "reported" /\ argspc = 2 /\ reported = 2 /\ counter = 2

\* the script paths that the scan of the web accessible pages comes upon,
\* in the order it comes upon them: the pages in the order of namelist,
\* the <script src> tags of a page in the order of the document
RECURSIVE WarDiscovered(_, _, _)
WarDiscovered(manifest, extension_zip, namelist) ==
    IF namelist = <<>> THEN <<>>
    ELSE LET contained_file == Head(namelist)
             tags == FindAllScript(ZipRead(extension_zip, contained_file))
             srcs == [i \in 1..Len(tags) |->
                         IF tags[i].hasSrc
                         THEN <<UrlJoin(contained_file,
                                        SplitFirst(SplitFirst(tags[i].src, <<"?">>),
                                                   <<"#">>))>>
                         ELSE <<>>]
             Flat[i \in 0..Len(tags)] == IF i = 0 THEN <<>> ELSE Flat[i - 1] \o srcs[i]
         IN  (IF TimesScanned(manifest, manifest.manifest_version, contained_file) > 0
              THEN Flat[Len(tags)] ELSE <<>>)
             \o WarDiscovered(manifest, extension_zip, Tail(namelist))

\* the script paths the harvest of the bundle written as name discovers,
\* in the order it discovers them
DiscoveredFor(name) ==
    LET manifest == u.manifest
        extension_zip == disk[u.crx]
    IN  IF name = "wars.js"
        THEN WarDiscovered(manifest, extension_zip, NameList(extension_zip))
        ELSE IF manifest.background.kind # "dict" THEN <<>>
        ELSE IF manifest.manifest_version = 2
            THEN BackgroundScriptListV2(manifest, extension_zip)
        ELSE <<manifest.background.service_worker>>

\* C21: in background.js and in wars.js each script path appears at most
\* once, and the paths appear in the order in which the harvest discovered
\* them; the scripts of the web accessible pages are in wars.js in the
\* order of their <script src> tags.
C21_BundlesInDiscoveryOrder ==
    \A name \in {"background.js", "wars.js"} :
        Written(name) =>
            LET files == FilesOf(WrittenBundle(u.dest, name))
                discovered == DiscoveredFor(name)
            IN  \A i, j \in 1..Len(files) :
                   i < j => /\ files[i] # files[j]
                            /\ FirstAt(discovered, files[i])
                                  < FirstAt(discovered, files[j])

\* what a call that runs to its last statement does to the file system, in
\* order
WriteOrder ==
    <<"<dest>", "manifest.json", CONTENTSCRIPT_JS, "background.js", "wars.js">>

\* the names of the files in the destination of the call
FilesInDest == {f.name : f \in {g \in fs.files : g.dir = u.dest}}

\* C22: a call makes its destination and then writes manifest.json,
\* contentscript.js, background.js and wars.js, in that order and each
\* once; it does so only for an archive that passed validation; a call
\* that returned has written them all; and what a call has written is in
\* the destination, also after a later statement raised (in a first run
\* the destination holds nothing else).
C22_WritesInOrderAfterValidation ==
    /\ IsPrefix(u.wrote, WriteOrder)
    /\ u.wrote # <<>> => PassedValidation(disk[u.crx])
    /\ u.pc = "returned" => u.wrote = WriteOrder
    /\ u.wrote # <<>> => u.dest \in fs.dirs
    /\ \A i \in 2..Len(u.wrote) : IsFile(fs, u.dest, u.wrote[i])
    /\ runs = <<>> => FilesInDest = {u.wrote[i] : i \in 2..Len(u.wrote)}

\* C22, witness: the harvest of wars.js raised in a first run; the
\* destination holds manifest.json, contentscript.js and background.js,
\* written in that order, and no wars.js.
C22_Witness ==
    /\ u.pc = "raised"
    /\ runs = <<>>
    /\ u.wrote = SubSeq(WriteOrder, 1, 4)
    /\ FilesInDest = {"manifest.json", CONTENTSCRIPT_JS, "background.js"}

\* the temp file of the call exists in /tmp
TempFileExists == \E f \in beautify.files : f.path = beautify.temp_file

\* C23: when a call of beautify_script has returned, the temp file it
\* wrote does not exist, /tmp holds no file of an earlier call, and a call
\* that is about to write finds no file at its temp path, whatever the
\* contents passed one after the other with one suffix, identical contents
\* included; each call returns its content as the formatter left it.
C23_NoTempFileLeft ==
    /\ beautify.pc \in {"idle", "return"} => beautify.files = {}
    /\ beautify.pc = "write" => ~TempFileExists
    /\ beautify.pc = "idle" =>
          beautify.out = [i \in 1..Len(beautify.given) |->
                             beautify_script(beautify.given[i], beautify.suffix)]

\* C23, witness: two calls with the same content and the same suffix have
\* returned, the second is over and /tmp is empty.
C23_Witness ==
    /\ beautify.pc = "idle"
    /\ beautify.todo = <<>>
    /\ beautify.given = <<<<"a", " ", "b">>, <<"a", " ", "b">>>>
    /\ beautify.out = <<<<"a", "b">>, <<"a", "b">>>>
    /\ beautify.files = {}

\* the names that the harvest of the bundles written so far has passed to
\* read_from_zip: the scripts it refers to that are not filtered
Requested ==
    UNION {{path \in ReferencedBy(name) : IsStr(path) /\ ~Filtered(path)} :
           name \in {n \in {CONTENTSCRIPT_JS, "background.js", "wars.js"} :
                        Written(n)}}

\* the name without one leading "./", when it has one, and without what
\* follows the first "?"
StripOnce(name) ==
    SplitFirst(IF StartsWith(name, <<".", "/">>) THEN SubSeq(name, 3, Len(name))
               ELSE name,
               <<"?">>)

\* C24: the name read_from_zip looks up is the requested name with one
\* leading "./" removed and everything from the first "?" on removed; no
\* other leading character is stripped.
C24_LookupStripsOnlyDotSlash ==
    \A filename \in Requested : LookupName(filename) = StripOnce(filename)

\* the contents of the entries of the archive whose name satisfies Same
DataOf(zf, Same(_)) ==
    {zf.entries[i].data : i \in {k \in 1..Len(zf.entries) : Same(zf.entries[k].name)}}

\* what read_from_zip is to return for the name it looks up: the bytes of
\* the entry of that name; without one, the bytes of an entry of that name
\* up to case; without one, b''
Resolves(zf, name, bytes) ==
    IF DataOf(zf, LAMBDA n : n = name) # {}
    THEN bytes \in DataOf(zf, LAMBDA n : n = name)
    ELSE IF DataOf(zf, LAMBDA n : Lower(n) = Lower(name)) # {}
    THEN bytes \in DataOf(zf, LAMBDA n : Lower(n) = Lower(name))
    ELSE bytes = Empty

\* C25: for every name requested, read_from_zip returns the bytes of the
\* entry that has exactly the name looked up when there is one, else the
\* bytes of an entry that has it up to case when there is one, else b'';
\* a missing entry raises nothing: the bundle is written.
C25_ExactThenCaseInsensitiveThenEmpty ==
    \A filename \in Requested :
        Resolves(disk[u.crx], LookupName(filename),
                 read_from_zip(disk[u.crx], filename))

\* C25, witness: contentscript.js is written for the scripts B.js (the
\* archive holds b.js), X.js (the archive holds X.js and x.js), x.js and
\* m.js (the archive holds no such entry); it holds b.js for B.js, X.js
\* for X.js, x.js for x.js and nothing for m.js.
C25_Witness ==
    /\ Written(CONTENTSCRIPT_JS)
    /\ {UpperBJs, UpperXJs, XJs, MJs} \subseteq Requested
    /\ \E i, j, k \in 1..Len(WrittenBundle(u.dest, CONTENTSCRIPT_JS)) :
          LET frags == WrittenBundle(u.dest, CONTENTSCRIPT_JS)
          IN  /\ frags[i] = FileFragment(UpperBJs, <<"b">>)
              /\ frags[j] = FileFragment(UpperXJs, <<"X">>)
              /\ frags[k] = FileFragment(XJs, <<"x">>)
    /\ MJs \notin {WrittenBundle(u.dest, CONTENTSCRIPT_JS)[i].from :
                      i \in 1..Len(WrittenBundle(u.dest, CONTENTSCRIPT_JS))}

\* the file name of the archive without its trailing ".crx"
WithoutArchiveExtension(extension_crx) ==
    SubSeq(Basename(extension_crx), 1, Len(Basename(extension_crx)) - Len(DotCrx))

\* C26: every call of unpack_extension made on an archive that passes
\* validation, its file name ending in ".crx", has created the directory
\* destRoot/extensionId, extensionId being the file name without its
\* trailing ".crx" only.
C26_DestinationFromFileName ==
    \A extension_crx \in DOMAIN calls :
        (/\ calls[extension_crx] # <<>>
         /\ EndsWith(Basename(extension_crx), DotCrx)
         /\ PassedValidation(disk[extension_crx]))
            => PathJoin(DestOf(argsd, extension_crx),
                        WithoutArchiveExtension(extension_crx)) \in fs.dirs

\* the paths the <script src> tags of the background page refer to
PageSources(background, extension_zip) ==
    IF ~Truthy(background.page) THEN {}
    ELSE LET tags == FindAllScript(read_from_zip(extension_zip,
                         SplitFirst(SplitFirst(background.page, <<"?">>), <<"#">>)))
         IN  {UrlJoin(background.page, tags[i].src) :
                 i \in {k \in 1..Len(tags) : tags[k].hasSrc}}

\* the members of paths that are str, pass the filter policy and have a
\* content in the archive
Kept(paths, extension_zip) ==
    {path \in paths : /\ IsStr(path)
                      /\ ~ExcludedByPolicy(path)
                      /\ read_from_zip(extension_zip, path) # Empty}

\* the paths of the file fragments of background.js
BackgroundFiles ==
    {FilesOf(WrittenBundle(u.dest, "background.js"))[i] :
        i \in 1..Len(FilesOf(WrittenBundle(u.dest, "background.js")))}

\* C27: the file fragments of background.js written for a manifest whose
\* background is a dict are, for manifest_version 3, that of
\* background.service_worker when it is a str and none otherwise,
\* whatever background.scripts and background.page hold; for
\* manifest_version 2, those of background.scripts and of the scripts the
\* page background.page refers to, whatever background.service_worker
\* holds.
C27_BackgroundByManifestVersion ==
    (Written("background.js") /\ u.manifest.background.kind = "dict") =>
        LET background == u.manifest.background
            scripts == {background.scripts[i] : i \in 1..Len(background.scripts)}
        IN  IF u.manifest.manifest_version = 3
            THEN BackgroundFiles = Kept({background.service_worker}, disk[u.crx])
            ELSE BackgroundFiles =
                    Kept(scripts \cup PageSources(background, disk[u.crx]),
                         disk[u.crx])

\* C27, witness: for the background {"scripts": ["a.js", 1],
\* "service_worker": "sw.js"} under manifest_version 3, background.js is
\* written and holds sw.js alone.
C27_Witness ==
    /\ Written("background.js")
    /\ u.manifest.background = Background(<<AJs, NonStr>>, None, SwJs)
    /\ u.manifest.manifest_version = 3
    /\ BackgroundFiles = {SwJs}

\* the consumers that hold the sentinel: between the get that returned it
\* and the put that gives it back
Holding == {c \in Consumers : pc[c] = "reput"}

\* the sentinels in the system: in the queue or held by a consumer
Sentinels(q, holding) ==
    Cardinality({i \in 1..Len(q) : q[i] = None}) + Cardinality(holding)

\* there is no sentinel before the producer's last put and one from then on
OneSentinel == Sentinels(queue, Holding) = IF ppc = "done" THEN 1 ELSE 0

\* a step that adds a sentinel is the producer's last put
OnlyProducerCreates ==
    Sentinels(queue', Holding') > Sentinels(queue, Holding)
        => ppc = "walk" /\ ppc' = "done"

\* C28: in every state the sentinels in the queue and those held by a
\* consumer between its get and its put are at most one together, none
\* before the producer's last put and exactly one from it on, a consumer
\* that holds it giving it back; no step of a consumer adds a sentinel.
C28_SentinelConserved == []OneSentinel /\ [][OnlyProducerCreates]_vars

\* C28, witness: of two consumers one has given the sentinel back and is
\* over, the other one holds it, the queue holding none.
C28_Witness ==
    /\ argspc = 2
    /\ \E c, d \in Consumers : pc[c] = "done" /\ pc[d] = "reput"
    /\ Sentinels(queue, {}) = 0

\* the jobs that the consumers have dequeued, after their traces
Dequeued ==
    UNION {{trace[c][k].item : k \in {n \in 1..Len(trace[c]) :
                                          /\ trace[c][n].op = "get"
                                          /\ trace[c][n].item # None}} :
           c \in Consumers}

\* the jobs the producer is to enqueue: the archives of the walk
JobsOfWalk == {tree[i] : i \in {k \in 1..Len(tree) : ProducerPuts(tree[k]) # <<>>}}

\* C29: once a consumer has dequeued the sentinel, the producer has
\* enqueued every job and every job has been dequeued by some consumer:
\* the queue holds no job, so the sentinel a consumer puts back is never
\* ahead of a job; and in no state is an item of the queue behind a
\* sentinel.
C29_SentinelAfterAllJobs ==
    /\ (\E c \in Consumers : seen[c] > 0) =>
          /\ walked = Len(tree)
          /\ JobsOfWalk \subseteq Dequeued
          /\ \A i \in 1..Len(queue) : queue[i] = None
    /\ \A i \in 1..Len(queue) : queue[i] = None => i = Len(queue)

\* C29, witness: two consumers have dequeued the sentinel, each after one
\* of the two jobs of the walk, and the second one holds the sentinel.
C29_Witness ==
    /\ argspc = 2
    /\ \A c \in Consumers : seen[c] = 1 /\ Len(trace[c]) > 1
    /\ Cardinality(Dequeued) = 2
    /\ Holding # {}

=============================================================================
